---- MODULE Spec2Model ----
(***************************************************************************)
(* A model of ezzy-logger (src/src/Logger.js): the leveled console logger, *)
(* its severity gating, formatter, assertion helpers and throttle timers.  *)
(* The Node build is modelled (isBrowser is false under Node).             *)
(***************************************************************************)
EXTENDS Integers, Sequences, FiniteSets, TLC

VARIABLES
  loggers,    \* the Logger instances constructed so far, by instance id
  inst,       \* Logger._inst: id of the default instance, 0 while unset
  alive,      \* FALSE once an error thrown in a timer callback ended the process
  throttleTbl,\* the module-level _throttle object: key -> timer handle
  timers,     \* the scheduled, not yet fired, not cleared setTimeout callbacks
  nextHandle, \* the handle the next setTimeout returns
  burst,      \* history: per throttle key, the calls and emissions since the
              \* key's entry was created
  consoleGroups, \* the console's group nesting: group() calls still open
  last        \* history: what the most recent operation was given, did and returned

vars ==
  <<loggers, inst, alive, throttleTbl, timers, nextHandle, burst, consoleGroups, last>>

(***************************************************************************)
(* Bounds of the model.                                                    *)
(***************************************************************************)
MaxInst == 2        \* Logger instances constructed
MaxHandle == 4      \* timers armed before the model stops arming more
TickMs == 500       \* milliseconds one step of the clock advances

(***************************************************************************)
(* JavaScript values: a tag t and a payload v.                             *)
(***************************************************************************)
Undef == [t |-> "undefined", v |-> 0]
Null == [t |-> "null", v |-> 0]
NaNv == [t |-> "nan", v |-> 0]
N(n) == [t |-> "number", v |-> n]
B(b) == [t |-> "boolean", v |-> b]
S(s) == [t |-> "string", v |-> s]
\* an Error object: its message and its stack text
E(m) == [t |-> "error", v |-> [message |-> m, stack |-> "Error: " \o m \o " at x"]]
\* an array, by its elements
A(els) == [t |-> "array", v |-> els]
\* a plain object, by its fields
O(fields) == [t |-> "object", v |-> fields]
\* a function of no arguments, by the value it returns
F(r) == [t |-> "function", v |-> r]

\* ezzy-typeof: the "true type" of a value
trueTypeOf(x) == IF x.t = "nan" THEN "number" ELSE x.t

\* typeof x === "string" / "number"
IsString(x) == x.t = "string"
IsNumber(x) == x.t \in {"number", "nan"}

\* ToBoolean
Truthy(x) ==
  CASE x.t \in {"undefined", "null", "nan"} -> FALSE
    [] x.t = "number" -> x.v # 0
    [] x.t = "boolean" -> x.v
    [] x.t = "string" -> x.v # ""
    [] OTHER -> TRUE

\* a === b (objects, arrays, errors and functions are equal by identity: the
\* model's composite values are always distinct objects)
StrictEq(a, b) ==
  /\ a.t = b.t
  /\ a.t \in {"undefined", "null", "number", "boolean", "string"}
  /\ a.v = b.v

Digits == <<"0", "1", "2", "3", "4", "5", "6", "7", "8", "9">>

RECURSIVE NatStr(_)
NatStr(n) == IF n < 10 THEN Digits[n + 1] ELSE NatStr(n \div 10) \o Digits[(n % 10) + 1]

\* Number.prototype.toString for integers
NumStr(n) == IF n < 0 THEN "-" \o NatStr(0 - n) ELSE NatStr(n)

RECURSIVE JoinWith(_, _)
\* Array.prototype.join of a sequence of strings
JoinWith(strs, sep) ==
  IF Len(strs) = 0 THEN ""
  ELSE IF Len(strs) = 1 THEN strs[1]
  ELSE strs[1] \o sep \o JoinWith(Tail(strs), sep)

\* new Array(n).join(ch): n empty slots joined, that is n - 1 copies of ch
ArrayJoin(n, ch) == JoinWith([i \in 1..n |-> ""], ch)

RECURSIVE ToStr(_)
\* ToString, as template literals, string concatenation and new TypeError(x) apply it
ToStr(x) ==
  CASE x.t = "undefined" -> "undefined"
    [] x.t = "null" -> "null"
    [] x.t = "nan" -> "NaN"
    [] x.t = "number" -> NumStr(x.v)
    [] x.t = "boolean" -> IF x.v THEN "true" ELSE "false"
    [] x.t = "string" -> x.v
    [] x.t = "error" -> "Error: " \o x.v.message
    [] x.t = "array" -> JoinWith([i \in 1..Len(x.v) |-> ToStr(x.v[i])], ",")
    [] x.t = "object" -> "[object Object]"
    [] OTHER -> "function"


\* ToNumber, for the primitive values; NaNv stands for NaN
ToNum(x) ==
  CASE x.t = "number" -> x
    [] x.t = "null" -> N(0)
    [] x.t = "boolean" -> IF x.v THEN N(1) ELSE N(0)
    [] x.t = "string" ->
         IF x.v = "" THEN N(0)
         ELSE IF \E n \in -9..99 : NumStr(n) = x.v
              THEN N(CHOOSE n \in -9..99 : NumStr(n) = x.v)
              ELSE NaNv
    [] OTHER -> NaNv

\* isNaN(x)
IsNaN(x) == ToNum(x).t = "nan"

\* parseInt(x): the integer that ToString(x) starts with, for integral inputs
ParseInt(x) ==
  IF \E n \in -9..99 : NumStr(n) = ToStr(x)
  THEN N(CHOOSE n \in -9..99 : NumStr(n) = ToStr(x))
  ELSE NaNv

\* a >= k for a number or NaN a and an integer k
GE(a, k) == a.t = "number" /\ a.v >= k

\* obj.field, undefined when obj has no such field
Get(obj, field) ==
  IF obj.t \in {"object", "error"} /\ field \in DOMAIN obj.v
  THEN (IF obj.t = "error" THEN S(obj.v[field]) ELSE obj.v[field])
  ELSE Undef

\* the order the model's objects list their keys in
FieldOrder ==
  <<"title", "message", "msg", "data", "type", "color", "indent", "prefix",
    "suffix", "marginTop", "marginBottom", "paddingBottom", "paddingTop",
    "borderTop", "borderBottom", "borderChar", "ts", "timestamp", "muted",
    "stack", "error", "basics", "request", "loggerPrefix", "asdf", "hi", "d">>

ObjKeys(o) == SelectSeq(FieldOrder, LAMBDA k : k \in DOMAIN o.v)

RECURSIVE JSONtext(_)

\* the JSON text of an object whose serialised keys are ks
ObjText(x, ks) ==
  "{" \o JoinWith([i \in 1..Len(ks) |->
                     "\"" \o ks[i] \o "\":" \o JSONtext(x.v[ks[i]])], ",") \o "}"

\* JSON.stringify(x) as text; "undefined" where it returns undefined
JSONtext(x) ==
  CASE x.t \in {"null", "nan"} -> "null"
    [] x.t = "number" -> NumStr(x.v)
    [] x.t = "boolean" -> IF x.v THEN "true" ELSE "false"
    [] x.t = "string" -> "\"" \o x.v \o "\""
    [] x.t = "array" ->
         "[" \o JoinWith([i \in 1..Len(x.v) |-> JSONtext(x.v[i])], ",") \o "]"
    [] x.t = "object" ->
         ObjText(x, SelectSeq(ObjKeys(x),
                               LAMBDA k : x.v[k].t \notin {"undefined", "function"}))
    [] x.t = "error" -> "{}"
    [] OTHER -> "undefined"

(***************************************************************************)
(* The level table and the module's settings.                              *)
(***************************************************************************)
LOG_LEVELS == <<"error", "warn", "highlight", "info", "log", "debug", "deepDebug">>

\* LOG_LEVELS.indexOf(x): strict equality, so only a string can be found
IndexOf(x) ==
  IF x.t = "string" /\ \E i \in 1..Len(LOG_LEVELS) : LOG_LEVELS[i] = x.v
  THEN (CHOOSE i \in 1..Len(LOG_LEVELS) : LOG_LEVELS[i] = x.v) - 1
  ELSE -1

DEBUG_LEVEL == IndexOf(S("debug"))
INFO_LEVEL == IndexOf(S("info"))
LOG_LEVEL == IndexOf(S("log"))
HIGHLIGHT_LEVEL == IndexOf(S("highlight"))
DEEP_DEBUG_LEVEL == IndexOf(S("deepDebug"))
WARN_LEVEL == IndexOf(S("warn"))
ERROR_LEVEL == IndexOf(S("error"))

\* the settings read from the process arguments, at their defaults
DEFAULT_LEVEL == S("info")
BORING_LOG == FALSE
USE_CONSOLE_LOG == FALSE
HIDE_ARGUMENTS == FALSE
isBrowser == FALSE

\* the style names cli-color defines
ClcColors ==
  {"black", "red", "green", "yellow", "blue", "magenta", "cyan", "white",
   "blackBright", "redBright", "greenBright", "yellowBright", "blueBright",
   "magentaBright", "cyanBright", "whiteBright"}

\* one call of a method of the console sink
Call(m, a) == [m |-> m, a |-> a]

\* the outcome of a piece of code: the error it threw ("" when none), the sink
\* calls it made before that
Done(calls) == [err |-> "", sink |-> calls]
Thrown(name, calls) == [err |-> name, sink |-> calls]

(***************************************************************************)
(* Logger: construction, level, color.                                     *)
(***************************************************************************)
isDebugging(l) == GE(l.level, DEBUG_LEVEL)

\* the fields the constructor sets
LoggerFields(level, silent) ==
  [silent |-> IF silent.t = "undefined" THEN FALSE ELSE Truthy(silent),
   isGroupped |-> FALSE,
   level |-> N(IndexOf(IF level.t = "undefined" THEN DEFAULT_LEVEL ELSE level)),
   boring |-> BORING_LOG,
   consoleLog |-> USE_CONSOLE_LOG,
   groupTitle |-> ""]

\* the banner the constructor prints
Banner(l) ==
  IF HIDE_ARGUMENTS THEN <<>>
  ELSE <<Call("log",
           "[LOG] Logging level set to " \o ToStr(l.level) \o " | is "
           \o (IF isDebugging(l) THEN "" ELSE "not") \o " debugging | is "
           \o (IF l.silent THEN "" ELSE "not") \o " silent")>>

\* new Logger(level, silent): the instance and the banner it prints
Constructor(level, silent) ==
  [logger |-> LoggerFields(level, silent), sink |-> Banner(LoggerFields(level, silent))]

\* color(color, msg, bold): the styled text, or the TypeError of clc[color]
\* being undefined
color(l, c, msg, bold) ==
  IF l.boring \/ ~Truthy(c) THEN [err |-> "", out |-> msg]
  ELSE IF c.t = "string" /\ c.v \in ClcColors
  THEN [err |-> "",
        out |-> "<" \o c.v \o (IF bold THEN ".bold" ELSE "") \o ">" \o msg \o "</>"]
  ELSE [err |-> "TypeError", out |-> ""]

\* the level setter storing one-based indices
LevelValue_OneBased(level) ==
  IF IsNaN(level)
  THEN (IF IndexOf(level) > -1 THEN N(IndexOf(level) + 1) ELSE N(0))
  ELSE ParseInt(level)

\* a level setter that keeps numeric levels within the table
LevelValue_Clamped(level) ==
  IF IsNaN(level)
  THEN (IF IndexOf(level) > -1 THEN N(IndexOf(level)) ELSE N(0))
  ELSE IF ParseInt(level).t # "number" THEN ParseInt(level)
  ELSE IF ParseInt(level).v > 6 THEN N(6)
  ELSE IF ParseInt(level).v < 0 THEN N(0)
  ELSE ParseInt(level)

\* the value the level setter stores
LevelValue(level) ==
  IF IsNaN(level)
  THEN (IF IndexOf(level) > -1 THEN N(IndexOf(level)) ELSE N(0))
  ELSE ParseInt(level)

\* set level(level)
SetLevel(l, level) ==
  [logger |-> [l EXCEPT !.level = LevelValue(level)],
   sink |-> IF HIDE_ARGUMENTS THEN <<>>
            ELSE <<Call("log",
                     color(l, S("magentaBright"),
                           "[LOG] Requested logging level to change to '"
                           \o ToStr(level) \o "'", TRUE).out)>>]

\* get level()
GetLevel(l) == l.level

(***************************************************************************)
(* ezzy-config-setup: the argument-shape resolver.                         *)
(***************************************************************************)
\* one constraint of a shape: the field it fills and the true types it accepts
Fld(f, ty) == [f |-> f, ty |-> ty]

\* the shapes with a title followed by any data declared first
Shapes_TitleDataFirst ==
  <<
    <<Fld("title", {"string"}), Fld("data", {"*"})>>,
    <<Fld("message", {"error", "string", "function"})>>,
    <<Fld("title", {"string"}), Fld("message", {"string", "function"})>>,
    <<Fld("basics", {"object"}), Fld("message", {"string", "function"})>>,
    <<Fld("title", {"string"}), Fld("error", {"error"})>>,
    <<Fld("title", {"string"}), Fld("message", {"string", "function"}),
      Fld("error", {"error"})>>,
    <<Fld("title", {"string"}), Fld("message", {"string", "function"}),
      Fld("data", {"*"})>>,
    <<Fld("basics", {"object"}), Fld("title", {"string"}),
      Fld("message", {"string", "function"})>>,
    <<Fld("basics", {"object"}), Fld("message", {"string"}), Fld("data", {"*"})>>,
    <<Fld("basics", {"object"}), Fld("title", {"string"}),
      Fld("message", {"string", "function"}), Fld("error", {"error"})>>,
    <<Fld("basics", {"object"}), Fld("title", {"string"}),
      Fld("message", {"string", "function"}), Fld("data", {"*"})>>,
    <<Fld("this", {"object"})>>
  >>

\* the shapes doLog declares, in declaration order
Shapes ==
  <<
    <<Fld("message", {"error", "string", "function"})>>,
    <<Fld("title", {"string"}), Fld("message", {"string", "function"})>>,
    <<Fld("basics", {"object"}), Fld("message", {"string", "function"})>>,
    <<Fld("title", {"string"}), Fld("error", {"error"})>>,
    <<Fld("title", {"string"}), Fld("data", {"object", "array", "number", "boolean"})>>,
    <<Fld("title", {"string"}), Fld("message", {"string", "function"}),
      Fld("error", {"error"})>>,
    <<Fld("title", {"string"}), Fld("message", {"string", "function"}),
      Fld("data", {"*"})>>,
    <<Fld("basics", {"object"}), Fld("title", {"string"}),
      Fld("message", {"string", "function"})>>,
    <<Fld("basics", {"object"}), Fld("message", {"string"}), Fld("data", {"*"})>>,
    <<Fld("basics", {"object"}), Fld("title", {"string"}),
      Fld("message", {"string", "function"}), Fld("error", {"error"})>>,
    <<Fld("basics", {"object"}), Fld("title", {"string"}),
      Fld("message", {"string", "function"}), Fld("data", {"*"})>>,
    <<Fld("this", {"object"})>>
  >>

\* the defaults doLog passes to the resolver
Defaults(l, debugColor) ==
  [title |-> S(""), message |-> S(""), msg |-> S(""), data |-> Null,
   type |-> S(""), color |-> debugColor, indent |-> N(0), prefix |-> B(TRUE),
   suffix |-> B(isDebugging(l)), marginTop |-> N(0), marginBottom |-> N(0),
   paddingBottom |-> N(0), paddingTop |-> N(0), borderTop |-> N(0),
   borderBottom |-> N(0), borderChar |-> S("-"), ts |-> B(FALSE),
   timestamp |-> B(FALSE), muted |-> B(FALSE), stack |-> Null, error |-> Null,
   basics |-> Undef]

\* a shape matches by count and by true type
Matches(shape, args) ==
  /\ Len(shape) = Len(args)
  /\ \A i \in 1..Len(shape) :
       "*" \in shape[i].ty \/ trueTypeOf(args[i]) \in shape[i].ty

\* the configuration one matched shape yields
Apply(defaults, shape, args) ==
  IF shape[1].f = "this"
  THEN [k \in DOMAIN defaults |->
          IF k \in DOMAIN args[1].v THEN args[1].v[k] ELSE defaults[k]]
  ELSE [k \in DOMAIN defaults |->
          IF \E i \in 1..Len(shape) : shape[i].f = k
          THEN args[CHOOSE i \in 1..Len(shape) : shape[i].f = k]
          ELSE defaults[k]]

\* configSetup(defaults, args, ...shapes): the first matching shape wins; with
\* none, the first argument is the message
configSetup(defaults, args) ==
  IF \E i \in 1..Len(Shapes) : Matches(Shapes[i], args)
  THEN Apply(defaults,
             Shapes[CHOOSE i \in 1..Len(Shapes) :
                      /\ Matches(Shapes[i], args)
                      /\ \A j \in 1..(i - 1) : ~Matches(Shapes[j], args)],
             args)
  ELSE IF Len(args) > 0 THEN [defaults EXCEPT !.message = args[1]]
  ELSE defaults

(***************************************************************************)
(* The formatter.                                                          *)
(***************************************************************************)
\* what _getLastLine() and Date.now() return: the caller's position and the
\* clock, which the model does not follow
LastLine == "caller.js 1:1"
NowText == "NOW"

\* the passes of `if (x) for (i = 0; i < x; i++)`
Count(x) ==
  IF Truthy(x) /\ ToNum(x).t = "number" /\ ToNum(x).v > 0 THEN ToNum(x).v ELSE 0

Blank(m, n) == [i \in 1..n |-> Call(m, "")]

\* Math.max(a, b)
MathMax(a, b) ==
  IF ToNum(a).t = "nan" \/ ToNum(b).t = "nan" THEN NaNv
  ELSE IF ToNum(a).v >= ToNum(b).v THEN ToNum(a) ELSE ToNum(b)

RECURSIVE RunPhases(_, _)
\* statements in sequence: the sink calls made up to the first throw
RunPhases(phases, acc) ==
  IF Len(phases) = 0 THEN Done(acc)
  ELSE IF Head(phases).err # "" THEN Thrown(Head(phases).err, acc \o Head(phases).sink)
  ELSE RunPhases(Tail(phases), acc \o Head(phases).sink)

\* line 291: config.message || config.msg
MessageOf(config) == IF Truthy(config.message) THEN config.message ELSE config.msg

\* lines 294-304: an Error gives its message, a function its result, an object
\* its JSON text
NormMessage(m) ==
  IF trueTypeOf(m) = "error" THEN Get(m, "message")
  ELSE IF trueTypeOf(m) = "function" THEN m.v
  ELSE IF trueTypeOf(m) = "object" THEN S(JSONtext(m))
  ELSE m

\* lines 296-297: the stack of an Error message, else the configured stack
StackOf(config, m) == IF trueTypeOf(m) = "error" THEN Get(m, "stack") ELSE config.stack

\* lines 306-315: the error field
WithError(config, m) ==
  IF ~Truthy(config.error) THEN m
  ELSE IF Truthy(Get(config.error, "stack")) THEN Get(config.error, "stack")
  ELSE IF Truthy(m)
  THEN S(ToStr(m) \o " [" \o ToStr(Get(config.error, "message")) \o "]")
  ELSE Get(config.error, "message")

\* lines 317-319: the data field
WithData(config, m) ==
  IF Truthy(config.data) THEN S(ToStr(m) \o " " \o JSONtext(config.data)) ELSE m

\* the message the formatter resolves, which line 321 tests for emptiness
Resolved(config) == WithData(config, WithError(config, NormMessage(MessageOf(config))))

\* the group title taking precedence over the message's own title
Titled_GroupFirst(l, config, m) ==
  IF l.groupTitle # "" THEN "[" \o l.groupTitle \o "] " \o ToStr(m)
  ELSE IF Truthy(config.title) THEN "[" \o ToStr(config.title) \o "] " \o ToStr(m)
  ELSE ToStr(m)

\* lines 329-333: the title, or else the group title
Titled(l, config, m) ==
  IF Truthy(config.title) THEN "[" \o ToStr(config.title) \o "] " \o ToStr(m)
  ELSE IF l.groupTitle # "" THEN "[" \o l.groupTitle \o "] " \o ToStr(m)
  ELSE ToStr(m)

\* lines 335-343: the caller's contextual prefix
BasicsPrefixed(config, text) ==
  IF Truthy(Get(Get(config.basics, "request"), "loggerPrefix"))
  THEN "[" \o ToStr(Get(Get(config.basics, "request"), "loggerPrefix")) \o "] " \o text
  ELSE text

\* lines 325-327 and 345-347: the level tag and the type
LevelTagged(logType, config, text) ==
  IF Truthy(config.prefix)
  THEN "[" \o logType \o "] "
       \o (IF StrictEq(config.type, S("")) THEN ""
           ELSE "[" \o ToStr(config.type) \o "] ")
       \o text
  ELSE text

\* lines 349-356: the suffix
Suffixed(l, config, text) ==
  IF IsString(config.suffix)
  THEN text \o color(l, S("blackBright"), " (" \o config.suffix.v \o ")", FALSE).out
  ELSE IF Truthy(config.suffix)
  THEN text \o color(l, S("blackBright"), " (" \o LastLine \o ")", FALSE).out
  ELSE text

\* lines 358-360: the timestamp
Stamped(l, config, text) ==
  IF Truthy(config.ts) \/ Truthy(config.timestamp)
  THEN text \o color(l, S("blackBright"), " > " \o NowText, FALSE).out
  ELSE text

\* lines 362-366: muting or coloring, which throws on an unknown color
Styled(l, config, text) ==
  IF Truthy(config.muted) THEN color(l, S("blackBright"), text, FALSE)
  ELSE IF Truthy(config.color) THEN color(l, config.color, text, FALSE)
  ELSE [err |-> "", out |-> text]

\* a body line whose title is prepended after the caller's contextual prefix
Body_TitleAfterBasics(l, logType, config, m) ==
  Styled(l, config,
    Stamped(l, config,
      Suffixed(l, config,
        LevelTagged(logType, config,
          Titled(l, config, S(BasicsPrefixed(config, ToStr(m))))))))

\* the body line composed from a resolved message m
Body(l, logType, config, m) ==
  Styled(l, config,
    Stamped(l, config,
      Suffixed(l, config,
        LevelTagged(logType, config,
          BasicsPrefixed(config, Titled(l, config, m))))))

\* the border line of lines 375-382, or what computing it throws
BorderOf(l, config, n) ==
  IF ~(Truthy(config.borderTop) \/ Truthy(config.borderBottom))
  THEN [err |-> "", out |-> ""]
  ELSE IF n.t = "nan" \/ n.v < 0 THEN [err |-> "RangeError", out |-> ""]
  ELSE color(l, config.color, ArrayJoin(n.v, ToStr(config.borderChar)), FALSE)

Border(l, config) == BorderOf(l, config, MathMax(config.borderTop, config.borderBottom))

\* the indentation of lines 394-398, or the RangeError of new Array(indent)
Indentation(config) ==
  IF ~Truthy(config.indent) THEN [err |-> "", out |-> ""]
  ELSE IF IsNumber(config.indent)
  THEN (IF config.indent.v < 0 THEN [err |-> "RangeError", out |-> ""]
        ELSE [err |-> "", out |-> ArrayJoin(config.indent.v, " ")])
  ELSE [err |-> "", out |-> ToStr(config.indent)]

\* the stack line of lines 418-420
StackLine(method, colored) ==
  [err |-> colored.err,
   sink |-> IF colored.err = "" THEN <<Call(method, colored.out)>> ELSE <<>>]

\* an output whose top padding comes before the top border
Output_PaddingAboveBorder(l, method, config, body, stack, border, ind) ==
  RunPhases(
    << [err |-> body.err, sink |-> <<>>],
       Done(Blank(method, Count(config.marginTop))),
       [err |-> border.err, sink |-> <<>>],
       Done(Blank(method, Count(config.paddingTop))),
       Done(IF Truthy(config.borderTop) THEN <<Call(method, border.out)>> ELSE <<>>),
       [err |-> ind.err,
        sink |-> IF ind.err = "" THEN <<Call(method, ind.out \o body.out)>> ELSE <<>>],
       IF Truthy(stack)
       THEN StackLine(method, color(l, config.color, ToStr(stack), FALSE))
       ELSE Done(<<>>),
       Done(Blank(method, Count(config.paddingBottom))),
       Done(IF Truthy(config.borderBottom) THEN <<Call(method, border.out)>> ELSE <<>>),
       Done(Blank(method, Count(config.marginBottom))) >>,
    <<>>)

\* lines 362-436 in order: styling, margins, borders, paddings, body, stack
Output(l, method, config, body, stack, border, ind) ==
  RunPhases(
    << [err |-> body.err, sink |-> <<>>],
       Done(Blank(method, Count(config.marginTop))),
       [err |-> border.err, sink |-> <<>>],
       Done(IF Truthy(config.borderTop) THEN <<Call(method, border.out)>> ELSE <<>>),
       Done(Blank(method, Count(config.paddingTop))),
       [err |-> ind.err,
        sink |-> IF ind.err = "" THEN <<Call(method, ind.out \o body.out)>> ELSE <<>>],
       IF Truthy(stack)
       THEN StackLine(method, color(l, config.color, ToStr(stack), FALSE))
       ELSE Done(<<>>),
       Done(Blank(method, Count(config.paddingBottom))),
       Done(IF Truthy(config.borderBottom) THEN <<Call(method, border.out)>> ELSE <<>>),
       Done(Blank(method, Count(config.marginBottom))) >>,
    <<>>)

\* doLog without the test for an empty message
Emit_NoEmptyTest(l, logType, method, config, m) ==
  Output(l, method, config, Body(l, logType, config, m),
         StackOf(config, MessageOf(config)), Border(l, config),
         Indentation(config))

\* doLog from line 291 on, for a resolved configuration and message
Emit(l, logType, method, config, m) ==
  IF StrictEq(m, S("")) THEN Done(<<>>)
  ELSE Output(l, method, config, Body(l, logType, config, m),
              StackOf(config, MessageOf(config)), Border(l, config),
              Indentation(config))

Format(l, logType, method, config) == Emit(l, logType, method, config, Resolved(config))

\* doLog(logType, methodName, debugColor, args): the sink calls it makes and
\* the error it throws, if any
doLog(l, logType, methodName, debugColor, args) ==
  Format(l, logType, IF l.consoleLog THEN "log" ELSE methodName,
         configSetup(Defaults(l, debugColor), args))

(***************************************************************************)
(* The severity methods.  Each yields what the call did: whether doLog was *)
(* invoked, the sink calls made, the error thrown.                         *)
(***************************************************************************)
Logged(r) == [doLogs |-> 1, err |-> r.err, sink |-> r.sink]
Skipped == [doLogs |-> 0, err |-> "", sink |-> <<>>]

\* highlight gated at the rank of info
highlight_AtInfoRank(l, args) ==
  IF ~l.silent /\ GE(l.level, INFO_LEVEL)
  THEN Logged(doLog(l, "HGH", "info", S("yellowBright"), args))
  ELSE Skipped

highlight(l, args) ==
  IF ~l.silent /\ GE(l.level, HIGHLIGHT_LEVEL)
  THEN Logged(doLog(l, "HGH", "info", S("yellowBright"), args))
  ELSE Skipped

debug(l, args) ==
  IF ~l.silent /\ isDebugging(l)
  THEN Logged(doLog(l, "DBG", "debug", S("magenta"), args))
  ELSE Skipped

deepDebug(l, args) ==
  IF ~l.silent /\ GE(l.level, DEEP_DEBUG_LEVEL)
  THEN Logged(doLog(l, "DBG", "debug", S("blackBright"), args))
  ELSE Skipped

\* info that does not look at silent
info_IgnoringSilent(l, args) ==
  IF GE(l.level, INFO_LEVEL)
  THEN Logged(doLog(l, "INF", "info", Null, args))
  ELSE Skipped

info(l, args) ==
  IF ~l.silent /\ GE(l.level, INFO_LEVEL)
  THEN Logged(doLog(l, "INF", "info", Null, args))
  ELSE Skipped

log(l, args) ==
  IF ~l.silent /\ GE(l.level, LOG_LEVEL)
  THEN Logged(doLog(l, "LOG", "log", Null, args))
  ELSE Skipped

warn(l, args) ==
  IF ~l.silent /\ GE(l.level, WARN_LEVEL)
  THEN Logged(doLog(l, "WRN", "warn", S("yellow"), args))
  ELSE Skipped

error(l, args) ==
  IF ~l.silent /\ GE(l.level, ERROR_LEVEL)
  THEN Logged(doLog(l, "ERR", "error", S("red"), args))
  ELSE Skipped

\* this[method](...args)
Method(l, method, args) ==
  CASE method = "error" -> error(l, args)
    [] method = "warn" -> warn(l, args)
    [] method = "highlight" -> highlight(l, args)
    [] method = "info" -> info(l, args)
    [] method = "log" -> log(l, args)
    [] method = "debug" -> debug(l, args)
    [] method = "deepDebug" -> deepDebug(l, args)

\* silence that also drops the level to error
silence_DroppingLevel(l) == [l EXCEPT !.silent = TRUE, !.level = N(0)]

\* silence()
silence(l) == [l EXCEPT !.silent = TRUE]

\* talk as a toggle of silent
talk_Toggling(l) == [l EXCEPT !.silent = ~@]

\* talk()
talk(l) == [l EXCEPT !.silent = FALSE]

\* what console.group(...args) is given to print as the group's label
GroupLabel(args) == JoinWith([i \in 1..Len(args) |-> ToStr(args[i])], " ")

\* lines 508-513: the title kept for the group, cut to 25 characters
GroupTitle(args) ==
  IF Len(args) > 0 /\ IsString(args[1])
  THEN (IF Len(args[1].v) > 25 THEN SubSeq(args[1].v, 1, 22) \o "..." ELSE args[1].v)
  ELSE ""

\* groupEnd(): the instance after it and the sink calls it makes
groupEnd(l) ==
  [logger |-> [l EXCEPT !.groupTitle = "", !.isGroupped = FALSE],
   sink |-> <<Call("groupEnd", "")>>]

\* lines 503-505: an open group is ended first
EndIfGroupped(l) == IF l.isGroupped THEN groupEnd(l) ELSE [logger |-> l, sink |-> <<>>]

\* groupStart that opens the next group inside the open one
groupStart_Nesting(l, args) ==
  [logger |-> [l EXCEPT !.groupTitle = GroupTitle(args), !.isGroupped = TRUE],
   sink |-> <<Call("group", GroupLabel(args))>>]

\* groupStart(...args)
groupStart(l, args) ==
  [logger |-> [EndIfGroupped(l).logger EXCEPT
                 !.groupTitle = GroupTitle(args), !.isGroupped = TRUE],
   sink |-> EndIfGroupped(l).sink \o <<Call("group", GroupLabel(args))>>]

\* group(...args), ungroup() and done() are groupStart and groupEnd
group(l, args) == groupStart(l, args)
ungroup(l) == groupEnd(l)
done(l) == groupEnd(l)

RECURSIVE ConsoleGroups(_, _)
\* the console's nesting after the sink calls: group() opens one more,
\* groupEnd() closes one if any is open
ConsoleGroups(open, calls) ==
  IF Len(calls) = 0 THEN open
  ELSE ConsoleGroups(
         IF Head(calls).m = "group" THEN open + 1
         ELSE IF Head(calls).m = "groupEnd" /\ open > 0 THEN open - 1
         ELSE open,
         Tail(calls))

\* fatal(...args): the log, made only when not silent, and the TypeError
\* thrown after it.  The spread at line 641 puts args[0] in doLog's args
\* parameter; the resolver is given it as the sole argument.
FatalThrow(args, r) ==
  IF r.err # ""
  THEN [doLogs |-> r.doLogs, err |-> r.err, sink |-> r.sink,
        errmsg |-> IF r.err = "RangeError" THEN "Invalid array length"
                   ELSE "clc[color] is not a function"]
  ELSE [doLogs |-> r.doLogs, err |-> "TypeError", sink |-> r.sink,
        errmsg |-> IF Len(args) = 0 \/ args[1].t = "undefined" THEN ""
                   ELSE ToStr(args[1])]

\* fatal that returns quietly when silent
fatal_QuietWhenSilent(l, args) ==
  IF l.silent THEN [doLogs |-> 0, err |-> "", sink |-> <<>>, errmsg |-> ""]
  ELSE FatalThrow(args, Logged(doLog(l, "ERR", "error", S("red"), SubSeq(args, 1, 1))))

fatal(l, args) ==
  FatalThrow(args,
    IF ~l.silent
    THEN Logged(doLog(l, "ERR", "error", S("red"), SubSeq(args, 1, 1)))
    ELSE Skipped)

(***************************************************************************)
(* The assertion helpers.  Each yields the value returned (undefined when  *)
(* the helper threw), the error thrown, and what its warn call did.        *)
(***************************************************************************)
Passed == [ret |-> B(TRUE), err |-> "", warns |-> 0, doLogs |-> 0, sink |-> <<>>]

\* what a helper yields once its warn call did w
Warned(w) ==
  [ret |-> IF w.err = "" THEN B(FALSE) ELSE Undef, err |-> w.err, warns |-> 1,
   doLogs |-> w.doLogs, sink |-> w.sink]

\* a failure reported through error instead of warn
Failed_ThroughError(l, text) == Warned(error(l, <<S(text)>>))

\* this.warn(text); return false
Failed(l, text) == Warned(warn(l, <<S(text)>>))

Raised(name) == [ret |-> Undef, err |-> name, warns |-> 0, doLogs |-> 0, sink |-> <<>>]

\* the strings the model compares, in code-unit order
StrOrder == <<"", "2", "a", "b">>
StrRank(s) == CHOOSE i \in 1..Len(StrOrder) : StrOrder[i] = s

\* a <= b and a >= b for primitives: two strings compare by code units,
\* anything else as numbers, and every comparison with NaN is false
LessEq(a, b) ==
  IF a.t = "string" /\ b.t = "string" THEN StrRank(a.v) <= StrRank(b.v)
  ELSE ToNum(a).t = "number" /\ ToNum(b).t = "number" /\ ToNum(a).v <= ToNum(b).v

GreaterEq(a, b) == LessEq(b, a)

\* x.length: a TypeError on null and undefined, undefined where there is none
HasNoLengthProp(x) == x.t \in {"undefined", "null"}
LengthOf(x) ==
  CASE x.t = "string" -> N(Len(x.v))
    [] x.t = "array" -> N(Len(x.v))
    [] x.t = "function" -> N(0)
    [] OTHER -> Get(x, "length")

assert(l, val) ==
  IF \A i \in 1..Len(val) : Truthy(val[i]) THEN Passed
  ELSE Failed(l, "Assertion Failed: There is a falsy value")

assertOne(l, val) ==
  IF \E i \in 1..Len(val) : Truthy(val[i]) THEN Passed
  ELSE Failed(l, "Assertion Failed: No values are truthy")

assertOnlyOne(l, val1, val2) ==
  IF Truthy(val1) = ~Truthy(val2) THEN Passed
  ELSE Failed(l, "Assertion Failed: '" \o ToStr(val1) \o "' is similar to '"
                 \o ToStr(val2) \o "'")

assertEqual(l, a, b) ==
  IF ~StrictEq(a, b)
  THEN Failed(l, "Assertion Failed: Value " \o ToStr(a) \o " is not equal to "
                 \o ToStr(b))
  ELSE Passed

assertGreaterThan(l, a, b) ==
  IF LessEq(a, b)
  THEN Failed(l, "Assertion Failed: Value " \o ToStr(a) \o " is not greater than "
                 \o ToStr(b))
  ELSE Passed

assertLessThan(l, a, b) ==
  IF GreaterEq(a, b)
  THEN Failed(l, "Assertion Failed: Value " \o ToStr(a) \o " is not smaller than "
                 \o ToStr(b))
  ELSE Passed

assertNotEqual(l, a, b) ==
  IF StrictEq(a, b)
  THEN Failed(l, "Assertion Failed: Value '" \o ToStr(a) \o "' is equal to '"
                 \o ToStr(b) \o "'")
  ELSE Passed

\* the loop of assertLength stops at the first value that is null or undefined
\* (val[i].length throws) or has no length (warn, return false)
LengthAt(l, val, i) ==
  IF HasNoLengthProp(val[i]) THEN Raised("TypeError")
  ELSE Failed(l, "Assertion Failed: Value '" \o ToStr(val[i]) \o "' has no length")

assertLength(l, val) ==
  IF \E i \in 1..Len(val) : HasNoLengthProp(val[i]) \/ ~Truthy(LengthOf(val[i]))
  THEN LengthAt(l, val,
         CHOOSE k \in 1..Len(val) :
           /\ HasNoLengthProp(val[k]) \/ ~Truthy(LengthOf(val[k]))
           /\ \A j \in 1..(k - 1) :
                ~HasNoLengthProp(val[j]) /\ Truthy(LengthOf(val[j])))
  ELSE Passed

assertType(l, value, type) ==
  IF ~StrictEq(S(trueTypeOf(value)), type)
  THEN Failed(l, "Assertion Failed: Value " \o ToStr(value) \o " is not "
                 \o ToStr(type))
  ELSE Passed

(***************************************************************************)
(* The throttle coalescer.                                                 *)
(***************************************************************************)
\* the default of throttle's timeout parameter, in milliseconds
DEFAULT_TIMEOUT == 1000

\* key = method + (msg.message || msg)
ThrottleKey(msg, method) ==
  method \o ToStr(IF Truthy(Get(msg, "message")) THEN Get(msg, "message") ELSE msg)

\* the msg the timer callback is bound to
BoundMsg(msg) == IF IsString(msg) THEN O([message |-> msg]) ELSE msg

\* a callback that emits the payload as it was stored
WithSuffix_Unmarked(msg) == msg

\* Object.assign(msg, {suffix: "Throttled - " + self._getLastLine()})
WithSuffix(msg) ==
  O([k \in DOMAIN msg.v \cup {"suffix"} |->
       IF k = "suffix" THEN S("Throttled - " \o LastLine) ELSE msg.v[k]])

\* clearTimeout(handle)
ClearTimeout(ts, handle) == {t \in ts : t.h # handle}

\* the timers after setTimeout(callback.bind({key, method, msg}), timeout)
SetTimeout(ts, handle, key, method, msg, self, timeout) ==
  ts \cup {[h |-> handle, key |-> key, method |-> method, msg |-> BoundMsg(msg),
            self |-> self, left |-> timeout]}

\* a throttle entry that leaves the pending timer scheduled
ThrottleEntry_NoClear(tbl, ts, key) ==
  IF key \in DOMAIN tbl
  THEN [emit |-> FALSE, timers |-> ts]
  ELSE [emit |-> TRUE, timers |-> ts]

\* a throttle entry that emits every call
ThrottleEntry_AlwaysEmit(tbl, ts, key) ==
  IF key \in DOMAIN tbl
  THEN [emit |-> TRUE, timers |-> ClearTimeout(ts, tbl[key])]
  ELSE [emit |-> TRUE, timers |-> ts]

\* lines 779-783: whether the call is emitted now, and the timers left pending
ThrottleEntry(tbl, ts, key) ==
  IF key \in DOMAIN tbl
  THEN [emit |-> FALSE, timers |-> ClearTimeout(ts, tbl[key])]
  ELSE [emit |-> TRUE, timers |-> ts]

\* delete _throttle[key]
Delete(tbl, key) == [k \in DOMAIN tbl \ {key} |-> tbl[k]]

(***************************************************************************)
(* The state machine.                                                      *)
(***************************************************************************)

Ids == 1..Len(loggers)

This(i) == [t |-> "logger", v |-> i]

NoBurst == [calls |-> 0, emits |-> 0, msg |-> Undef]

\* the record of an operation, before its results are filled in
Op(op, i, name, args) ==
  [op |-> op, id |-> i, name |-> name, args |-> args, ret |-> Undef, err |-> "",
   errmsg |-> "", doLogs |-> 0, warns |-> 0, sink |-> <<>>, sev |-> <<>>,
   burst |-> NoBurst]

\* the record of an assertion helper's call
AssertOp(name, i, args, r) ==
  [Op("assert", i, name, args) EXCEPT
     !.ret = r.ret, !.err = r.err, !.warns = r.warns, !.doLogs = r.doLogs,
     !.sink = r.sink]

Init ==
  /\ loggers = <<>>
  /\ inst = 0
  /\ alive = TRUE
  /\ throttleTbl = <<>>
  /\ timers = {}
  /\ nextHandle = 1
  /\ burst = <<>>
  /\ consoleGroups = 0
  /\ last = Op("init", 0, "", <<>>)

ThrottleVars == <<throttleTbl, timers, nextHandle, burst>>

\* the inputs the operations are called with
LevelNames == {LOG_LEVELS[i] : i \in 1..Len(LOG_LEVELS)}
LevelInputs == {S(n) : n \in LevelNames} \cup {S("bogus"), S("3"), N(10), N(-1), Null}
CtorLevels == {Undef, S("debug"), S("warn"), N(5)}
CtorSilent == {Undef, B(TRUE), B(FALSE)}
ArgLists ==
  { <<>>, <<S("a")>>, <<S("")>>, <<E("e")>>, <<S("T"), S("a")>>,
    <<O([message |-> S("a"), marginTop |-> N(1), borderBottom |-> N(2)])>>,
    <<O([message |-> S("a"), color |-> S("nope")])>> }
FatalArgs == { <<S("hi")>>, <<S("")>>, <<S("a"), S("b")>> }
AssertVals == {Undef, NaNv, N(1), N(2), S(""), S("a")}
AssertLists == {<<>>} \cup {<<a>> : a \in AssertVals}
                 \cup {<<a, b>> : a \in {N(1), S(""), Undef}, b \in AssertVals}
AssertTypes == {S("number"), S("string"), S("undefined")}
ThrottleMethods == {"log", "error"}
ThrottleMsgs ==
  { S("a"), O([message |-> S("a"), title |-> S("T")]),
    O([message |-> S("a"), color |-> S("nope")]) }
ThrottleTimeouts == {Undef, N(500)}

\* the record of a construction that printed the banner c.sink
CtorOp(op, i, args, c) ==
  [Op(op, i, "", args) EXCEPT !.ret = This(i), !.sink = c.sink]

\* Logger.logger constructing an instance on every access
AccessLogger_AlwaysConstructs ==
  /\ alive
  /\ Len(loggers) < MaxInst
  /\ loggers' = Append(loggers, Constructor(Undef, Undef).logger)
  /\ inst' = Len(loggers) + 1
  /\ last' = CtorOp("logger", Len(loggers) + 1, <<>>, Constructor(Undef, Undef))
  /\ UNCHANGED <<consoleGroups, alive, ThrottleVars>>

\* Logger.logger: the default instance, constructed on first access
AccessLogger ==
  /\ alive
  /\ IF inst = 0
     THEN /\ Len(loggers) < MaxInst
          /\ loggers' = Append(loggers, Constructor(Undef, Undef).logger)
          /\ inst' = Len(loggers) + 1
          /\ last' = CtorOp("logger", Len(loggers) + 1, <<>>, Constructor(Undef, Undef))
     ELSE /\ last' = [Op("logger", inst, "", <<>>) EXCEPT !.ret = This(inst)]
          /\ UNCHANGED <<loggers, inst>>
  /\ UNCHANGED <<consoleGroups, alive, ThrottleVars>>

\* Logger.getLogger(level, silent)
CallGetLogger ==
  /\ alive
  /\ Len(loggers) < MaxInst
  /\ \E level \in CtorLevels, silent \in CtorSilent :
       /\ loggers' = Append(loggers, Constructor(level, silent).logger)
       /\ last' = CtorOp("getLogger", Len(loggers) + 1, <<level, silent>>,
                         Constructor(level, silent))
  /\ UNCHANGED <<consoleGroups, inst, alive, ThrottleVars>>

\* logger.level = level
CallSetLevel ==
  /\ alive
  /\ \E i \in Ids, level \in LevelInputs :
       /\ loggers' = [loggers EXCEPT ![i] = SetLevel(loggers[i], level).logger]
       /\ last' = [Op("setLevel", i, "", <<level>>) EXCEPT
                     !.sink = SetLevel(loggers[i], level).sink]
  /\ UNCHANGED <<consoleGroups, inst, alive, ThrottleVars>>

\* logger.level
CallGetLevel ==
  /\ alive
  /\ \E i \in Ids :
       last' = [Op("getLevel", i, "", <<>>) EXCEPT !.ret = GetLevel(loggers[i])]
  /\ UNCHANGED <<consoleGroups, loggers, inst, alive, ThrottleVars>>

CallSilence ==
  /\ alive
  /\ \E i \in Ids :
       /\ loggers' = [loggers EXCEPT ![i] = silence(loggers[i])]
       /\ last' = [Op("silence", i, "", <<>>) EXCEPT !.ret = This(i)]
  /\ UNCHANGED <<consoleGroups, inst, alive, ThrottleVars>>

CallTalk ==
  /\ alive
  /\ \E i \in Ids :
       /\ loggers' = [loggers EXCEPT ![i] = talk(loggers[i])]
       /\ last' = [Op("talk", i, "", <<>>) EXCEPT !.ret = This(i)]
  /\ UNCHANGED <<consoleGroups, inst, alive, ThrottleVars>>

\* a severity call that returns what doLog printed, undefined when nothing
SeverityOp_ReturnsOutput(i, method, args, r) ==
  [Op("severity", i, method, args) EXCEPT
     !.ret = IF r.err = "" /\ r.sink # <<>> THEN This(i) ELSE Undef,
     !.err = r.err, !.doLogs = r.doLogs, !.sink = r.sink,
     !.sev = <<[id |-> i, method |-> method, args |-> args]>>]

\* the record of a severity method's call that did r
SeverityOp(i, method, args, r) ==
  [Op("severity", i, method, args) EXCEPT
     !.ret = IF r.err = "" THEN This(i) ELSE Undef,
     !.err = r.err, !.doLogs = r.doLogs, !.sink = r.sink,
     !.sev = <<[id |-> i, method |-> method, args |-> args]>>]

\* logger.<method>(...args) for the seven severity methods
CallSeverity ==
  /\ alive
  /\ \E i \in Ids, method \in LevelNames, args \in ArgLists :
       last' = SeverityOp(i, method, args, Method(loggers[i], method, args))
  /\ UNCHANGED <<consoleGroups, loggers, inst, alive, ThrottleVars>>

\* the record of a fatal call that did r
FatalOp(i, args, r) ==
  [Op("fatal", i, "", args) EXCEPT
     !.err = r.err, !.errmsg = r.errmsg, !.doLogs = r.doLogs, !.sink = r.sink]

\* logger.fatal(...args)
CallFatal ==
  /\ alive
  /\ \E i \in Ids, args \in FatalArgs :
       last' = FatalOp(i, args, fatal(loggers[i], args))
  /\ UNCHANGED <<consoleGroups, loggers, inst, alive, ThrottleVars>>

Next ==
  \/ AccessLogger
  \/ CallSetLevel
  \/ CallGetLevel
  \/ CallSilence
  \/ CallTalk
  \/ CallSeverity
  \/ CallFatal

\* the default instance: its level, its silence, its severity methods and fatal
Spec == Init /\ [][Next]_vars

NextCtor ==
  \/ AccessLogger
  \/ CallGetLogger
  \/ CallGetLevel
  \/ CallSilence
  \/ CallTalk

\* construction of the default instance and of further instances
SpecCtor == Init /\ [][NextCtor]_vars

(***************************************************************************)
(* The assertion helpers as operations.                                    *)
(***************************************************************************)
CallAssert ==
  /\ alive
  /\ \E i \in Ids, val \in AssertLists :
       last' = AssertOp("assert", i, val, assert(loggers[i], val))
  /\ UNCHANGED <<consoleGroups, loggers, inst, alive, ThrottleVars>>

CallAssertOne ==
  /\ alive
  /\ \E i \in Ids, val \in AssertLists :
       last' = AssertOp("assertOne", i, val, assertOne(loggers[i], val))
  /\ UNCHANGED <<consoleGroups, loggers, inst, alive, ThrottleVars>>

CallAssertOnlyOne ==
  /\ alive
  /\ \E i \in Ids, a \in AssertVals, b \in AssertVals :
       last' = AssertOp("assertOnlyOne", i, <<a, b>>, assertOnlyOne(loggers[i], a, b))
  /\ UNCHANGED <<consoleGroups, loggers, inst, alive, ThrottleVars>>

CallAssertEqual ==
  /\ alive
  /\ \E i \in Ids, a \in AssertVals, b \in AssertVals :
       last' = AssertOp("assertEqual", i, <<a, b>>, assertEqual(loggers[i], a, b))
  /\ UNCHANGED <<consoleGroups, loggers, inst, alive, ThrottleVars>>

CallAssertNotEqual ==
  /\ alive
  /\ \E i \in Ids, a \in AssertVals, b \in AssertVals :
       last' = AssertOp("assertNotEqual", i, <<a, b>>, assertNotEqual(loggers[i], a, b))
  /\ UNCHANGED <<consoleGroups, loggers, inst, alive, ThrottleVars>>

CallAssertGreaterThan ==
  /\ alive
  /\ \E i \in Ids, a \in AssertVals, b \in AssertVals :
       last' = AssertOp("assertGreaterThan", i, <<a, b>>,
                        assertGreaterThan(loggers[i], a, b))
  /\ UNCHANGED <<consoleGroups, loggers, inst, alive, ThrottleVars>>

CallAssertLessThan ==
  /\ alive
  /\ \E i \in Ids, a \in AssertVals, b \in AssertVals :
       last' = AssertOp("assertLessThan", i, <<a, b>>, assertLessThan(loggers[i], a, b))
  /\ UNCHANGED <<consoleGroups, loggers, inst, alive, ThrottleVars>>

CallAssertLength ==
  /\ alive
  /\ \E i \in Ids, val \in AssertLists :
       last' = AssertOp("assertLength", i, val, assertLength(loggers[i], val))
  /\ UNCHANGED <<consoleGroups, loggers, inst, alive, ThrottleVars>>

CallAssertType ==
  /\ alive
  /\ \E i \in Ids, a \in AssertVals, type \in AssertTypes :
       last' = AssertOp("assertType", i, <<a, type>>, assertType(loggers[i], a, type))
  /\ UNCHANGED <<consoleGroups, loggers, inst, alive, ThrottleVars>>

\* logger.level = level, for the levels around the rank of warn
CallSetLevelAround ==
  /\ alive
  /\ \E i \in Ids, level \in {S("error"), S("warn"), N(-1)} :
       /\ loggers' = [loggers EXCEPT ![i] = SetLevel(loggers[i], level).logger]
       /\ last' = [Op("setLevel", i, "", <<level>>) EXCEPT
                     !.sink = SetLevel(loggers[i], level).sink]
  /\ UNCHANGED <<consoleGroups, inst, alive, ThrottleVars>>

NextAssert ==
  \/ AccessLogger
  \/ CallSetLevelAround
  \/ CallSilence
  \/ CallTalk
  \/ CallAssert
  \/ CallAssertOne
  \/ CallAssertOnlyOne
  \/ CallAssertEqual
  \/ CallAssertNotEqual
  \/ CallAssertGreaterThan
  \/ CallAssertLessThan
  \/ CallAssertLength
  \/ CallAssertType

\* the default instance and its assertion helpers
SpecAssert == Init /\ [][NextAssert]_vars

(***************************************************************************)
(* The throttle coalescer as operations.                                   *)
(***************************************************************************)
\* the window a throttle call asks for
Window(timeout) == IF timeout.t = "undefined" THEN DEFAULT_TIMEOUT ELSE timeout.v

\* history: the burst of a key after one more throttle call with msg; a burst
\* starts with a call that finds no timer pending for the key
BurstAfter(key, msg, emitted) ==
  (key :> IF \E t \in timers : t.key = key
          THEN [calls |-> burst[key].calls + 1,
                emits |-> burst[key].emits + (IF emitted THEN 1 ELSE 0),
                msg |-> msg]
          ELSE [calls |-> 1, emits |-> IF emitted THEN 1 ELSE 0, msg |-> msg])
  @@ burst

\* the record of a throttle call whose immediate emission, if any, did r
ThrottleOp(i, method, msg, timeout, e, r) ==
  [Op("throttle", i, method, <<msg, timeout>>) EXCEPT
     !.ret = IF r.err = "" THEN This(i) ELSE Undef,
     !.err = r.err, !.doLogs = r.doLogs, !.sink = r.sink,
     !.sev = IF e.emit THEN <<[id |-> i, method |-> method, args |-> <<msg>>]>>
             ELSE <<>>]

\* a re-armed timer that keeps the time left on the timer it replaces
Throttled_KeepsDeadline(i, method, msg, timeout, key, e, r) ==
  /\ last' = ThrottleOp(i, method, msg, timeout, e, r)
  /\ IF r.err # ""
     THEN UNCHANGED ThrottleVars
     ELSE /\ timers' = SetTimeout(e.timers, nextHandle, key, method, msg, i,
                                  IF \E t \in timers : t.key = key
                                  THEN (CHOOSE t \in timers : t.key = key).left
                                  ELSE Window(timeout))
          /\ throttleTbl' = (key :> nextHandle) @@ throttleTbl
          /\ nextHandle' = nextHandle + 1
          /\ burst' = BurstAfter(key, msg, e.emit)

\* a re-armed timer that stays bound to the instance that armed the first
Throttled_OnFirstCaller(i, method, msg, timeout, key, e, r) ==
  /\ last' = ThrottleOp(i, method, msg, timeout, e, r)
  /\ IF r.err # ""
     THEN UNCHANGED ThrottleVars
     ELSE /\ timers' = SetTimeout(e.timers, nextHandle, key, method, msg,
                                  IF \E t \in timers : t.key = key
                                  THEN (CHOOSE t \in timers : t.key = key).self
                                  ELSE i,
                                  Window(timeout))
          /\ throttleTbl' = (key :> nextHandle) @@ throttleTbl
          /\ nextHandle' = nextHandle + 1
          /\ burst' = BurstAfter(key, msg, e.emit)

\* throttle(msg, timeout, method) once lines 779-783 decided e and did r: a
\* throw of the immediate emission leaves no timer behind
Throttled(i, method, msg, timeout, key, e, r) ==
  /\ last' = ThrottleOp(i, method, msg, timeout, e, r)
  /\ IF r.err # ""
     THEN UNCHANGED ThrottleVars
     ELSE /\ timers' = SetTimeout(e.timers, nextHandle, key, method, msg, i,
                                  Window(timeout))
          /\ throttleTbl' = (key :> nextHandle) @@ throttleTbl
          /\ nextHandle' = nextHandle + 1
          /\ burst' = BurstAfter(key, msg, e.emit)

\* logger.throttle(msg, timeout, method), which the <level>Throttle methods call
CallThrottle ==
  /\ alive
  /\ nextHandle <= MaxHandle
  /\ \E i \in Ids, method \in ThrottleMethods, msg \in ThrottleMsgs,
        timeout \in ThrottleTimeouts :
       Throttled(i, method, msg, timeout, ThrottleKey(msg, method),
                 ThrottleEntry(throttleTbl, timers, ThrottleKey(msg, method)),
                 IF ThrottleEntry(throttleTbl, timers, ThrottleKey(msg, method)).emit
                 THEN Method(loggers[i], method, <<msg>>)
                 ELSE Skipped)
  /\ UNCHANGED <<consoleGroups, loggers, inst, alive>>

\* the record of a timer callback whose emission did r
FireOp(t, r) ==
  [Op("fire", t.self, t.method, <<t.msg>>) EXCEPT
     !.err = r.err, !.doLogs = r.doLogs, !.sink = r.sink,
     !.sev = <<[id |-> t.self, method |-> t.method, args |-> <<WithSuffix(t.msg)>>]>>,
     !.burst = IF t.key \in DOMAIN burst
               THEN [burst[t.key] EXCEPT !.emits = @ + 1]
               ELSE NoBurst]

\* a callback that leaves its entry in the table
Fired_KeepsEntry(t, r) ==
  /\ last' = FireOp(t, r)
  /\ timers' = timers \ {t}
  /\ burst' = Delete(burst, t.key)
  /\ throttleTbl' = throttleTbl
  /\ alive' = (r.err = "")

\* the timer callback of lines 786-792 once its emission did r: an error
\* thrown there skips the delete and, uncaught, ends the process
Fired(t, r) ==
  /\ last' = FireOp(t, r)
  /\ timers' = timers \ {t}
  /\ burst' = Delete(burst, t.key)
  /\ IF r.err = ""
     THEN throttleTbl' = Delete(throttleTbl, t.key) /\ alive' = TRUE
     ELSE throttleTbl' = throttleTbl /\ alive' = FALSE

\* a timer callback that prints whatever the instance's gates say
TimerFires_Ungated ==
  /\ alive
  /\ \E t \in timers :
       /\ t.left = 0
       /\ Fired(t, Method([loggers[t.self] EXCEPT !.silent = FALSE, !.level = N(6)],
                          t.method, <<WithSuffix(t.msg)>>))
  /\ UNCHANGED <<consoleGroups, loggers, inst, nextHandle>>

\* a timer whose window has elapsed fires
TimerFires ==
  /\ alive
  /\ \E t \in timers :
       /\ t.left = 0
       /\ Fired(t, Method(loggers[t.self], t.method, <<WithSuffix(t.msg)>>))
  /\ UNCHANGED <<consoleGroups, loggers, inst, nextHandle>>

\* the clock advances
Tick ==
  /\ alive
  /\ \E t \in timers : t.left > 0
  /\ timers' = {[t EXCEPT !.left = IF @ > TickMs THEN @ - TickMs ELSE 0] : t \in timers}
  /\ last' = Op("tick", 0, "", <<>>)
  /\ UNCHANGED <<consoleGroups, loggers, inst, alive, throttleTbl, nextHandle, burst>>

NextThrottle ==
  \/ AccessLogger
  \/ CallSilence
  \/ CallTalk
  \/ CallThrottle
  \/ TimerFires
  \/ Tick

\* the default instance and the throttle timers
SpecThrottle == Init /\ [][NextThrottle]_vars

(***************************************************************************)
(* Properties.                                                             *)
(***************************************************************************)
\* the level table as the documentation lists it
LevelTable == <<"error", "warn", "highlight", "info", "log", "debug", "deepDebug">>
Rank(name) == (CHOOSE k \in 1..Len(LevelTable) : LevelTable[k] = name) - 1

\* the logger the last operation was called on
Self == loggers[last.id]

\* the last call was a severity call that passes the silence and level gates
Passes == ~Self.silent /\ Self.level.t = "number" /\ Self.level.v >= Rank(last.name)

\* C1: a severity method S delegates to the formatter exactly when the logger
\* is not silent and its level is at least the index of S in the level table;
\* otherwise it returns having called neither the formatter nor the sink.
C1_GatedDelegation ==
  last.op = "severity" =>
    /\ last.doLogs \in {0, 1}
    /\ last.doLogs = 1 <=> Passes
    /\ ~Passes => last.sink = <<>> /\ last.err = "" /\ last.ret = This(last.id)

C1_Witness ==
  /\ last.op = "severity" /\ last.name = "highlight"
  /\ Self.level = N(2) /\ ~Self.silent /\ last.doLogs = 1

\* C2 as stated: a severity call with a message that passes the gates makes
\* exactly one sink call, whatever the message; any other makes none.
C2_ExactlyOneSinkCall ==
  last.op = "severity" /\ Len(last.args) >= 1
    => Len(last.sink) = (IF Passes THEN 1 ELSE 0)

\* the arguments are non-empty strings: a message, or a title and a message
PlainMessage(args) ==
  /\ Len(args) \in {1, 2}
  /\ \A k \in 1..Len(args) : args[k].t = "string" /\ args[k].v # ""

\* C2 amended: a severity call that passes the gates with a non-empty string
\* message makes exactly one sink call, the body line; a call that is
\* silenced or ranked above the level makes none.
C2_OneSinkCallForPlainMessage ==
  last.op = "severity" =>
    /\ Passes /\ PlainMessage(last.args) => Len(last.sink) = 1
    /\ ~Passes => Len(last.sink) = 0

C2_Witness ==
  /\ last.op = "severity" /\ last.name = "info" /\ last.args = <<S("a")>>
  /\ Passes /\ Len(last.sink) = 1

\* C5: fatal(x) raises a TypeError whose message is x in every logger state,
\* silent ones included; it logs exactly when the logger is not silent.
C5_FatalAlwaysRaises ==
  last.op = "fatal" =>
    /\ last.err = "TypeError"
    /\ last.errmsg = last.args[1].v
    /\ last.doLogs = 1 <=> ~Self.silent
    /\ Self.silent => last.sink = <<>>

C5_Witness ==
  /\ last.op = "fatal" /\ Self.silent /\ last.args[1] = S("hi")
  /\ last.err = "TypeError" /\ last.errmsg = "hi"

\* the severity methods that would reach the formatter on logger l
Emitting(l) == {m \in LevelNames : Method(l, m, <<S("a")>>).doLogs = 1}

\* C6 as stated: from any logger state, silence() then talk() leaves every
\* severity call emitting exactly when it did before; each is idempotent.
C6_SilenceTalkRestores ==
  \A i \in Ids :
    /\ Emitting(talk(silence(loggers[i]))) = Emitting(loggers[i])
    /\ silence(silence(loggers[i])) = silence(loggers[i])
    /\ talk(talk(loggers[i])) = talk(loggers[i])

\* C6 amended: from a logger state that is not silenced, silence() then talk()
\* restores the state, and with it the emission behaviour; from a silenced
\* state the pair leaves the logger talking; each is idempotent.
C6_SilenceTalkRestoresWhenTalking ==
  \A i \in Ids :
    /\ ~loggers[i].silent => talk(silence(loggers[i])) = loggers[i]
    /\ ~talk(silence(loggers[i])).silent
    /\ Emitting(talk(silence(loggers[i]))) = Emitting(talk(loggers[i]))
    /\ Emitting(silence(loggers[i])) = {}
    /\ silence(silence(loggers[i])) = silence(loggers[i])
    /\ talk(talk(loggers[i])) = talk(loggers[i])

C6_Witness ==
  /\ last.op = "talk" /\ ~Self.silent /\ Self = talk(silence(Self))
  /\ Emitting(Self) = {"error", "warn", "highlight", "info"}

\* C7: assigning the level setter the k-th name of the level table makes the
\* getter return k - 1, from any prior level.
C7_LevelNamesToIndices ==
  /\ \A i \in Ids, k \in 1..Len(LevelTable) :
       GetLevel(SetLevel(loggers[i], S(LevelTable[k])).logger) = N(k - 1)
  /\ last.op = "setLevel" /\ last.args[1].t = "string"
       /\ last.args[1].v \in LevelNames
     => GetLevel(Self) = N(Rank(last.args[1].v))

C7_Witness ==
  last.op = "setLevel" /\ last.args = <<S("deepDebug")>> /\ GetLevel(Self) = N(6)

\* the index a constructor argument names: a level name's index in the
\* table, a numeric index itself
NamedIndex(level) == IF level.t = "number" THEN level.v ELSE Rank(level.v)

\* C8: a logger constructed with a level name or a numeric index starts at
\* that index, and with the given silence flag.
C8_ConstructedAtGivenLevel ==
  last.op = "getLogger" =>
    /\ last.args[1].t # "undefined" => Self.level = N(NamedIndex(last.args[1]))
    /\ last.args[2].t # "undefined" => Self.silent = last.args[2].v

\* the timers pending for a key
Pending(key) == {t \in timers : t.key = key}

\* the payload a timer callback emits, without the suffix it adds
Payload(msg) == IF msg.t = "string" THEN [message |-> msg] ELSE msg.v

C4_OneTimerPerKey ==
  \A t1 \in timers :
    /\ \A t2 \in timers : t1.key = t2.key => t1 = t2
    /\ t1.key \in DOMAIN throttleTbl /\ throttleTbl[t1.key] = t1.h

C4_Witness ==
  /\ last.op = "throttle" /\ last.sev = <<>> /\ last.err = ""
  /\ Cardinality(Pending(ThrottleKey(last.args[1], last.name))) = 1
  /\ Cardinality(timers) = 2

\* C9: no assertion helper raises, whatever its arguments; a failed one
\* returns false after a warn call.
C9_AssertionsNeverRaise ==
  last.op = "assert" =>
    /\ last.err = ""
    /\ last.ret \in {B(TRUE), B(FALSE)}
    /\ last.ret = B(FALSE) => last.warns = 1

\* a < b, for primitives
JsLess(a, b) ==
  IF a.t = "string" /\ b.t = "string" THEN StrRank(a.v) < StrRank(b.v)
  ELSE ToNum(a).t = "number" /\ ToNum(b).t = "number" /\ ToNum(a).v < ToNum(b).v

\* the condition each helper is documented to test
Condition(name, args) ==
  CASE name = "assert" -> \A k \in 1..Len(args) : Truthy(args[k])
    [] name = "assertOne" -> \E k \in 1..Len(args) : Truthy(args[k])
    [] name = "assertOnlyOne" -> Truthy(args[1]) # Truthy(args[2])
    [] name = "assertEqual" -> StrictEq(args[1], args[2])
    [] name = "assertNotEqual" -> ~StrictEq(args[1], args[2])
    [] name = "assertGreaterThan" -> JsLess(args[2], args[1])
    [] name = "assertLessThan" -> JsLess(args[1], args[2])
    [] name = "assertLength" -> \A k \in 1..Len(args) : Truthy(LengthOf(args[k]))
    [] OTHER -> StrictEq(S(trueTypeOf(args[1])), args[2])

\* C10: a helper that returns, returns the truth value of its condition; a
\* warning is made only on the false path and reaches the sink only when the
\* logger is not silenced.
C10_AssertionsReturnCondition ==
  last.op = "assert" /\ last.err = "" =>
    /\ last.ret = B(Condition(last.name, last.args))
    /\ last.warns = 1 => last.ret = B(FALSE)
    /\ last.sink # <<>> => ~Self.silent /\ last.ret = B(FALSE)

C12_OneDefaultInstance ==
  /\ [](last.op = "logger" => inst # 0 /\ last.ret = This(inst))
  /\ [](last.op = "getLogger" => last.ret # This(inst) /\ last.ret.v = Len(loggers))
  /\ [][inst # 0 => inst' = inst]_vars
  /\ [][last'.op = "getLogger" => Len(loggers') = Len(loggers) + 1]_vars
  /\ [][last'.op = "logger" /\ inst # 0 => loggers' = loggers]_vars

C12_Witness ==
  /\ last.op = "logger" /\ inst = 1 /\ Len(loggers) = 2 /\ last.ret = This(1)
  /\ last.sink = <<>>

(***************************************************************************)
(* fromExec: the exec adapter, which logs through the default instance.    *)
(***************************************************************************)
\* nothing called yet
NoCalls == [err |-> "", sink |-> <<>>, doLogs |-> 0, sev |-> <<>>]

\* the calls so far, then method(val) on logger l, known as id, which did r
ExecCalled(acc, id, method, val, r) ==
  [err |-> r.err, sink |-> acc.sink \o r.sink, doLogs |-> acc.doLogs + r.doLogs,
   sev |-> Append(acc.sev, [id |-> id, method |-> method, args |-> <<val>>])]

\* Logger.logger[method](val), unless an earlier call threw
ExecCall(acc, l, id, method, val) ==
  IF acc.err # "" THEN acc
  ELSE ExecCalled(acc, id, method, val, Method(l, method, <<val>>))

\* if (val) { Logger.logger[method](val); }
ExecStep(acc, l, id, method, val) ==
  IF Truthy(val) THEN ExecCall(acc, l, id, method, val) ELSE acc

\* fromExec that logs stdout without testing it
fromExec_StdoutUntested(l, id, e, stdout, stderr) ==
  ExecStep(ExecCall(ExecStep(NoCalls, l, id, "error", e),
                    l, id, "debug", stdout),
           l, id, "error", stderr)

\* fromExec(e, stdout, stderr), with l the default instance, known as id
fromExec(l, id, e, stdout, stderr) ==
  ExecStep(ExecStep(ExecStep(NoCalls, l, id, "error", e),
                    l, id, "debug", stdout),
           l, id, "error", stderr)

ExecErrors == {Null, E("e"), B(TRUE)}
ExecOutputs == {S(""), S("out")}

\* the record of a fromExec call on instance i that did r, after the sink
\* calls of constructing the default instance, if it had to
ExecOp(i, args, construction, r) ==
  [Op("fromExec", i, "", args) EXCEPT
     !.err = r.err, !.doLogs = r.doLogs, !.sink = construction \o r.sink,
     !.sev = r.sev]

\* fromExec reads Logger.logger only inside its three tests
ReadsDefault(e, stdout, stderr) == Truthy(e) \/ Truthy(stdout) \/ Truthy(stderr)

\* fromExec that logs on the instance it is called on
CallFromExec_OnThis ==
  /\ alive
  /\ \E i \in Ids, e \in ExecErrors, stdout \in ExecOutputs, stderr \in ExecOutputs :
       last' = ExecOp(i, <<e, stdout, stderr>>, <<>>,
                      fromExec(loggers[i], i, e, stdout, stderr))
  /\ UNCHANGED <<consoleGroups, loggers, inst, alive, ThrottleVars>>

\* logger.fromExec(e, stdout, stderr)
CallFromExec ==
  /\ alive
  /\ \E i \in Ids, e \in ExecErrors, stdout \in ExecOutputs, stderr \in ExecOutputs :
       IF inst = 0 /\ ReadsDefault(e, stdout, stderr)
       THEN /\ Len(loggers) < MaxInst
            /\ loggers' = Append(loggers, Constructor(Undef, Undef).logger)
            /\ inst' = Len(loggers) + 1
            /\ last' = ExecOp(i, <<e, stdout, stderr>>, Constructor(Undef, Undef).sink,
                              fromExec(Constructor(Undef, Undef).logger,
                                       Len(loggers) + 1, e, stdout, stderr))
       ELSE /\ last' = ExecOp(i, <<e, stdout, stderr>>, <<>>,
                              IF inst = 0 THEN NoCalls
                              ELSE fromExec(loggers[inst], inst, e, stdout, stderr))
            /\ UNCHANGED <<loggers, inst>>
  /\ UNCHANGED <<consoleGroups, alive, ThrottleVars>>

NextExec ==
  \/ AccessLogger
  \/ CallGetLogger
  \/ CallSilence
  \/ CallFromExec

\* instances, the default one among them or not yet, and fromExec
SpecExec == Init /\ [][NextExec]_vars

\* the calls fromExec is to make, in order: those of the three whose value
\* is truthy
ExecCalls(args) ==
  SelectSeq(<<[method |-> "error", args |-> <<args[1]>>],
              [method |-> "debug", args |-> <<args[2]>>],
              [method |-> "error", args |-> <<args[3]>>]>>,
            LAMBDA c : Truthy(c.args[1]))

\* C13: fromExec(error, stdout, stderr) calls error(error), debug(stdout) and
\* error(stderr), in that order, each exactly when its value is truthy, and
\* makes no other call of a severity method.
C13_FromExecCalls ==
  last.op = "fromExec" =>
    /\ last.err = ""
    /\ Len(last.sev) = Len(ExecCalls(last.args))
    /\ \A k \in 1..Len(last.sev) :
         /\ last.sev[k].method = ExecCalls(last.args)[k].method
         /\ last.sev[k].args = ExecCalls(last.args)[k].args
         /\ last.sev[k].id = inst

C13_Witness ==
  /\ last.op = "fromExec" /\ last.args = <<E("e"), S("out"), S("out")>>
  /\ Len(last.sev) = 3
  /\ Cardinality({k \in 1..3 : last.sev[k].method = "error"}) = 2
  /\ Cardinality({k \in 1..3 : last.sev[k].method = "debug"}) = 1

(***************************************************************************)
(* The formatter called directly.                                          *)
(***************************************************************************)
\* argument lists for doLog: positional shapes, configuration objects,
\* messages that resolve to nothing, and malformed margins, borders, indents
FormatArgs ==
  { <<>>, <<S("")>>, <<Null>>, <<N(5)>>, <<S("Test")>>, <<E("e")>>,
    <<S("Title"), S("Message")>>,
    <<S("Message"), O([data |-> N(1)])>>,
    <<S("Title"), S("Message"), O([asdf |-> B(TRUE)])>>,
    <<O([request |-> O([loggerPrefix |-> S("p")])]), S("Message")>>,
    <<O([title |-> S("T"), message |-> S("M")])>>,
    <<O([title |-> S("T")])>>,
    <<O([message |-> S(""), marginTop |-> N(2), borderTop |-> N(3),
         paddingBottom |-> N(1), marginBottom |-> N(1), indent |-> N(-1),
         color |-> S("nope")])>>,
    <<O([message |-> S("a"), marginTop |-> N(1), borderTop |-> N(3),
         paddingTop |-> N(1), indent |-> N(2), color |-> S("green")])>>,
    <<O([message |-> S("a"), indent |-> N(-1)])>>,
    <<O([message |-> S("a"), marginTop |-> N(1), borderTop |-> N(-1),
         borderBottom |-> N(-2)])>>,
    <<O([message |-> S("a"), color |-> S("nope")])>>,
    <<O([message |-> S("a"), color |-> S("nope"), muted |-> B(TRUE)])>>,
    <<O([message |-> S("M"), type |-> S("ty"), title |-> S("T"),
         basics |-> O([request |-> O([loggerPrefix |-> S("p")])])])>>,
    <<O([message |-> S("M"), type |-> S("ty"), title |-> S("T"),
         prefix |-> B(FALSE)])>>,
    <<O([message |-> S("a"), stack |-> S("st"), marginTop |-> N(2),
         borderTop |-> N(2), paddingTop |-> N(1), paddingBottom |-> N(2),
         borderBottom |-> N(3), marginBottom |-> N(1)])>>,
    <<O([message |-> S("a"), indent |-> S("> ")])>>,
    <<O([message |-> S("a"), indent |-> N(1)])>> }

\* the record of a doLog call: the configuration resolved and what it did
DoLogOp(i, args, config, r) ==
  [config |-> config]
  @@ [Op("doLog", i, "log", args) EXCEPT
        !.err = r.err, !.sink = r.sink, !.doLogs = 1]

\* logger.doLog("LOG", "log", null, args)
CallDoLog ==
  /\ alive
  /\ \E i \in Ids, args \in FormatArgs :
       last' = DoLogOp(i, args, configSetup(Defaults(loggers[i], Null), args),
                       doLog(loggers[i], "LOG", "log", Null, args))
  /\ UNCHANGED <<consoleGroups, loggers, inst, alive, ThrottleVars>>

NextFormat ==
  \/ AccessLogger
  \/ CallSetLevel
  \/ CallDoLog

\* the formatter on the default instance at every level
SpecFormat == Init /\ [][NextFormat]_vars

\* the shapes that match an argument list, by their place in the declaration
Matching(args) == {k \in 1..Len(Shapes) : Matches(Shapes[k], args)}

\* the first of them
FirstMatching(args) == CHOOSE k \in Matching(args) : \A j \in Matching(args) : k <= j

\* C14 as stated: log("Title", "Message") resolves to that title and message,
\* log("Message", {data:1}) to that message and data, and log({title, message})
\* to the object's fields.
C14_ShapesAsStated ==
  last.op = "doLog" =>
    /\ last.args = <<S("Title"), S("Message")>>
       => last.config.title = S("Title") /\ last.config.message = S("Message")
    /\ last.args = <<S("Message"), O([data |-> N(1)])>>
       => last.config.message = S("Message") /\ last.config.data = O([data |-> N(1)])
    /\ last.args = <<O([title |-> S("T"), message |-> S("M")])>>
       => last.config.title = S("T") /\ last.config.message = S("M")

\* C14 amended: the first declared shape that matches decides the fields;
\* log("Title", "Message") resolves to that title and message,
\* log("Message", {data:1}) to the title "Message" and that data with the message
\* left empty, and log({title, message}) to the object's fields.
C14_FirstShapeWins ==
  last.op = "doLog" =>
    /\ Matching(last.args) # {}
       => last.config = Apply(Defaults(Self, Null), Shapes[FirstMatching(last.args)],
                              last.args)
    /\ last.args = <<S("Title"), S("Message")>>
       => /\ FirstMatching(last.args) = 2
          /\ last.config.title = S("Title") /\ last.config.message = S("Message")
    /\ last.args = <<S("Message"), O([data |-> N(1)])>>
       => /\ FirstMatching(last.args) = 5
          /\ last.config.title = S("Message") /\ last.config.message = S("")
          /\ last.config.data = O([data |-> N(1)])
    /\ last.args = <<O([title |-> S("T"), message |-> S("M")])>>
       => /\ FirstMatching(last.args) = Len(Shapes)
          /\ last.config.title = S("T") /\ last.config.message = S("M")

C14_Witness ==
  /\ last.op = "doLog" /\ last.args = <<S("Message"), O([data |-> N(1)])>>
  /\ last.config.title = S("Message") /\ last.err = "" /\ Len(last.sink) = 1

\* C15: when the message the formatter resolves is the empty string, the
\* formatter makes no sink call and raises nothing, whatever margins,
\* paddings, borders, indent or color were requested.
C15_EmptyMessageIsNoOp ==
  last.op = "doLog" /\ Resolved(last.config) = S("")
    => last.sink = <<>> /\ last.err = ""

C15_Witness ==
  /\ last.op = "doLog" /\ Resolved(last.config) = S("")
  /\ last.config.marginTop = N(2) /\ last.config.borderTop = N(3)
  /\ last.config.indent = N(-1) /\ last.config.color = S("nope")
  /\ last.sink = <<>> /\ last.err = ""

\* the configured color is one the styling library does not know
UnknownColor(config) ==
  Truthy(config.color) /\ ~(config.color.t = "string" /\ config.color.v \in ClcColors)

\* C16: the formatter raises only for an unrecognised color name; for every
\* other input whose message is not empty it raises nothing and makes at
\* least the body sink call.
C16_RaisesOnlyForUnknownColor ==
  last.op = "doLog" =>
    /\ last.err # "" => UnknownColor(last.config)
    /\ ~UnknownColor(last.config) /\ Resolved(last.config) # S("")
       => last.err = "" /\ Len(last.sink) >= 1

\* the key of the throttle call the record r describes
KeyOf(r) == ThrottleKey(r.args[1], r.name)

\* the latest step was a throttle call that returned
ThrottleStep == last'.op = "throttle" /\ last'.err = "" /\ nextHandle' = nextHandle + 1

\* the latest step was a timer callback
FireStep == last'.op = "fire" /\ timers' # timers

\* C17: a throttle call made while a timer is pending for its key is not
\* emitted; the pending timer is cancelled and the key's one timer is a new
\* one, bound to this call's payload, with the full window left.  Only the
\* passing of time reduces what is left, and a timer fires only with nothing
\* left, so the trailing emission comes no earlier than a full window after
\* the latest call.
C17_RearmsForFullWindow ==
  /\ [][ThrottleStep /\ Pending(KeyOf(last')) # {}
        => /\ last'.sev = <<>> /\ last'.sink = <<>>
           /\ Pending(KeyOf(last')) \cap timers' = {}
           /\ \A t \in timers' : t.key = KeyOf(last')
                => /\ t.h = nextHandle /\ t.h \notin {u.h : u \in timers}
                   /\ t.msg = BoundMsg(last'.args[1])
                   /\ t.left = Window(last'.args[2])
           /\ \E t \in timers' : t.key = KeyOf(last')]_vars
  /\ [][\A t \in timers' : \A u \in timers : u.h = t.h
          => /\ t.left >= u.left - TickMs
             /\ t.left < u.left => last'.op = "tick"]_vars
  /\ [][FireStep => \E t \in timers : t.left = 0 /\ timers' = timers \ {t}
                      /\ last'.name = t.method /\ last'.args = <<t.msg>>]_vars

C17_Witness ==
  /\ last.op = "throttle" /\ last.sev = <<>> /\ last.err = ""
  /\ last.args = <<O([message |-> S("a"), title |-> S("T")]), Undef>>
  /\ burst[KeyOf(last)].calls = 3
  /\ \E t \in Pending(KeyOf(last)) :
       t.left = DEFAULT_TIMEOUT /\ t.msg = last.args[1] /\ t.h = 3

TimerDue == alive /\ \E t \in timers : t.left = 0

\* the throttle coalescer under the event loop's scheduling: time passes while
\* a timer waits, and a timer that is due runs.  The second condition is weak
\* fairness of TimerFires, written out with TimerDue for what enables it.
SpecThrottleFair ==
  /\ SpecThrottle
  /\ WF_vars(Tick)
  /\ ([]<>(~TimerDue) \/ []<><<TimerFires>>_vars)

NewSilent == {B(TRUE), B(FALSE)}

\* new Logger("error", silent)
CallNew ==
  /\ alive
  /\ Len(loggers) < MaxInst
  /\ \E silent \in NewSilent :
       /\ loggers' = Append(loggers, Constructor(S("error"), silent).logger)
       /\ last' = CtorOp("new", Len(loggers) + 1, <<S("error"), silent>>,
                         Constructor(S("error"), silent))
  /\ UNCHANGED <<consoleGroups, inst, alive, ThrottleVars>>

\* payloads with one message text, and so one key
SharedMsgs == {S("a"), O([message |-> S("a"), title |-> S("T")])}

\* logger.errorThrottle(msg): throttle(msg, undefined, "error")
CallErrorThrottle ==
  /\ alive
  /\ nextHandle <= MaxHandle
  /\ \E i \in Ids, msg \in SharedMsgs :
       Throttled(i, "error", msg, Undef, ThrottleKey(msg, "error"),
                 ThrottleEntry(throttleTbl, timers, ThrottleKey(msg, "error")),
                 IF ThrottleEntry(throttleTbl, timers, ThrottleKey(msg, "error")).emit
                 THEN Method(loggers[i], "error", <<msg>>)
                 ELSE Skipped)
  /\ UNCHANGED <<consoleGroups, loggers, inst, alive>>

NextShared ==
  \/ CallNew
  \/ CallErrorThrottle
  \/ TimerFires
  \/ Tick

\* several instances throttling through the one table
SpecShared == Init /\ [][NextShared]_vars

\* the severity method named passes the gates of instance i
PassesOn(i, method) == ~loggers[i].silent /\ GE(loggers[i].level, Rank(method))

\* C20: the throttle table is one for all instances and its keys name no
\* instance.  When instance B throttles a key whose timer instance A armed,
\* B's call is not emitted, A's timer is cancelled, and the key's one timer
\* is B's: the trailing emission is made on B, through B's gates, and on no
\* other instance.
C20_InstancesShareTable ==
  /\ [][ThrottleStep /\ (\E u \in timers : u.key = KeyOf(last') /\ u.self # last'.id)
        => /\ last'.sev = <<>> /\ last'.sink = <<>>
           /\ Pending(KeyOf(last')) \cap timers' = {}
           /\ \A t \in timers' : t.key = KeyOf(last') => t.self = last'.id]_vars
  /\ [](last.op = "throttle" /\ last.err = ""
        => \A t \in Pending(KeyOf(last)) : t.self = last.id)
  /\ [][FireStep => \E t \in timers \ timers' :
          /\ last'.id = t.self
          /\ last'.sev = <<[id |-> t.self, method |-> t.method,
                            args |-> <<WithSuffix(t.msg)>>]>>
          /\ last'.doLogs = (IF PassesOn(t.self, t.method) THEN 1 ELSE 0)]_vars

C20_Witness ==
  /\ last.op = "fire" /\ last.id = 2 /\ last.burst.calls = 2 /\ last.burst.emits = 2
  /\ loggers[1].silent /\ ~loggers[2].silent
  /\ last.doLogs = 1 /\ last.sink # <<>> /\ last.err = ""

(***************************************************************************)
(* The two state variables of an instance under every kind of call.        *)
(***************************************************************************)
\* logger.warn("a")
CallWarn ==
  /\ alive
  /\ \E i \in Ids :
       last' = SeverityOp(i, "warn", <<S("a")>>, warn(loggers[i], <<S("a")>>))
  /\ UNCHANGED <<consoleGroups, loggers, inst, alive, ThrottleVars>>

\* logger.assert(1) and logger.assert("")
CallAssertValue ==
  /\ alive
  /\ \E i \in Ids, val \in {N(1), S("")} :
       last' = AssertOp("assert", i, <<val>>, assert(loggers[i], <<val>>))
  /\ UNCHANGED <<consoleGroups, loggers, inst, alive, ThrottleVars>>

\* logger.warnThrottle("a"): throttle("a", undefined, "warn")
CallWarnThrottle ==
  /\ alive
  /\ nextHandle <= MaxHandle
  /\ \E i \in Ids :
       Throttled(i, "warn", S("a"), Undef, ThrottleKey(S("a"), "warn"),
                 ThrottleEntry(throttleTbl, timers, ThrottleKey(S("a"), "warn")),
                 IF ThrottleEntry(throttleTbl, timers, ThrottleKey(S("a"), "warn")).emit
                 THEN Method(loggers[i], "warn", <<S("a")>>)
                 ELSE Skipped)
  /\ UNCHANGED <<consoleGroups, loggers, inst, alive>>

NextState ==
  \/ AccessLogger
  \/ CallSetLevel
  \/ CallSilence
  \/ CallTalk
  \/ CallWarn
  \/ CallAssertValue
  \/ CallWarnThrottle
  \/ TimerFires
  \/ Tick

\* the default instance under level changes, silencing, logging, asserting
\* and throttling
SpecState == Init /\ [][NextState]_vars

\* the instances other than the one the step was made on are as they were
OthersKept == \A j \in Ids : j # last'.id => loggers'[j] = loggers[j]

\* C21: silent and level are independent.  silence() and talk() set silent
\* and leave the level; assigning a level name sets the level to its index
\* and leaves silent, whatever the two were before; severity calls,
\* assertion helpers, throttle calls and timer callbacks change neither.
C21_SilentAndLevelIndependent ==
  [][/\ last'.op \in {"silence", "talk"}
        => /\ loggers'[last'.id].silent = (last'.op = "silence")
           /\ loggers'[last'.id].level = loggers[last'.id].level
           /\ OthersKept
     /\ last'.op = "setLevel"
        => /\ loggers'[last'.id].silent = loggers[last'.id].silent
           /\ \A n \in LevelNames :
                last'.args = <<S(n)>> => loggers'[last'.id].level = N(Rank(n))
           /\ OthersKept
     /\ last'.op \in {"severity", "assert", "throttle", "fire", "tick"}
        => loggers' = loggers]_vars

C21_Witness ==
  /\ last.op = "setLevel" /\ last.args = <<S("deepDebug")>>
  /\ loggers[last.id].level = N(6) /\ loggers[last.id].silent
  /\ nextHandle > 1

(***************************************************************************)
(* The body line of an emitted message.                                    *)
(***************************************************************************)
\* a doLog call that returned after printing
Emitted == last.op = "doLog" /\ last.err = "" /\ last.sink # <<>>

\* the place of the body line among the sink calls of one message
BodyIndex(config) ==
  Count(config.marginTop) + (IF Truthy(config.borderTop) THEN 1 ELSE 0)
  + Count(config.paddingTop) + 1

BodyLine == last.sink[BodyIndex(last.config)].a

Bracketed(x) == "[" \o ToStr(x) \o "] "

\* what follows the message text (suffix, timestamp) and wraps the line
\* (styling), applied to the text composed so far
Finished(text) ==
  Styled(Self, last.config, Stamped(Self, last.config, Suffixed(Self, last.config, text))).out

LevelTagPart == IF Truthy(last.config.prefix) THEN "[LOG] " ELSE ""
TypePart == IF StrictEq(last.config.type, S("")) THEN "" ELSE Bracketed(last.config.type)
TitlePart == IF Truthy(last.config.title) THEN Bracketed(last.config.title) ELSE ""
ContextPart ==
  IF Truthy(Get(Get(last.config.basics, "request"), "loggerPrefix"))
  THEN Bracketed(Get(Get(last.config.basics, "request"), "loggerPrefix"))
  ELSE ""
MessageText == ToStr(Resolved(last.config))

\* C22 as stated: the parts stand in the body line in the order type, title,
\* contextual prefix, level tag, message text, each when present or enabled.
C22_PartsInOrderStated ==
  Emitted =>
    BodyLine = Indentation(last.config).out
               \o Finished(TypePart \o TitlePart \o ContextPart \o LevelTagPart
                           \o MessageText)

\* C22: the body line reads level tag, type, contextual prefix, title,
\* message text.  The level tag and the type are both shown only when the
\* prefix option is enabled (the type also only when not empty); the
\* contextual prefix and the title are each shown when present.
C22_PartsInOrder ==
  Emitted =>
    BodyLine = Indentation(last.config).out
               \o Finished(LevelTagPart
                           \o (IF Truthy(last.config.prefix) THEN TypePart ELSE "")
                           \o ContextPart \o TitlePart \o MessageText)

C22_Witness ==
  /\ Emitted
  /\ Self.level = N(4)
  /\ StrictEq(last.config.type, S("ty")) /\ StrictEq(last.config.title, S("T"))
  /\ ContextPart = "[p] "
  /\ BodyLine = "[LOG] [ty] [p] [T] M"

(***************************************************************************)
(* The sink calls of one message.                                          *)
(***************************************************************************)
\* the lines a count option asks for
Times(x) == IF IsNumber(x) /\ x.v > 0 THEN x.v ELSE 0

BlankLines(n) == [i \in 1..n |-> ""]

\* the texts of the sink calls of the last operation, in order
Texts == [i \in 1..Len(last.sink) |-> last.sink[i].a]

\* the border line when the option named asks for one
BorderLineIf(option) ==
  IF Truthy(option) THEN <<Border(Self, last.config).out>> ELSE <<>>

\* the stack line when a stack was captured
StackLineIf(stack) ==
  IF Truthy(stack) THEN <<color(Self, last.config.color, ToStr(stack), FALSE).out>>
  ELSE <<>>

\* C23: the sink calls of one emitted message are, in this order, marginTop
\* blank lines, a border line if borderTop is set, paddingTop blank lines,
\* one body line, a stack line if a stack was captured, paddingBottom blank
\* lines, a border line if borderBottom is set, marginBottom blank lines, all
\* made on one sink method.
C23_SinkCallsInOrder ==
  Emitted =>
    /\ \A i \in 1..Len(last.sink) : last.sink[i].m = last.sink[1].m
    /\ BodyLine # ""
    /\ Texts = BlankLines(Times(last.config.marginTop))
               \o BorderLineIf(last.config.borderTop)
               \o BlankLines(Times(last.config.paddingTop))
               \o <<BodyLine>>
               \o StackLineIf(StackOf(last.config, MessageOf(last.config)))
               \o BlankLines(Times(last.config.paddingBottom))
               \o BorderLineIf(last.config.borderBottom)
               \o BlankLines(Times(last.config.marginBottom))

C23_Witness ==
  /\ Emitted
  /\ Self.level = N(4)
  /\ Texts = <<"", "", "--", "", "[LOG] a", "st", "", "", "--", "">>

(***************************************************************************)
(* The indentation of the body line.                                       *)
(***************************************************************************)
Spaces(n) == JoinWith([i \in 1..n |-> " "], "")

\* the body line before its indentation
Unindented == Body(Self, "LOG", last.config, Resolved(last.config)).out

\* C24: the body line starts with its indentation: the literal string when
\* indent is a string, exactly N spaces when indent is a number N >= 1, and
\* nothing when indent is 0.
C24_IndentIsLiteralOrNSpaces ==
  Emitted =>
    /\ IsString(last.config.indent)
       => BodyLine = last.config.indent.v \o Unindented
    /\ IsNumber(last.config.indent) /\ last.config.indent.v >= 1
       => BodyLine = Spaces(last.config.indent.v) \o Unindented
    /\ StrictEq(last.config.indent, N(0)) => BodyLine = Unindented

(***************************************************************************)
(* Groups.                                                                 *)
(***************************************************************************)
GroupArgs ==
  { <<>>, <<N(7)>>, <<S("")>>, <<S("Something")>>,
    <<S("abcdefghijklmnopqrstuvwxy")>>, <<S("abcdefghijklmnopqrstuvwxyz")>> }

\* the record of a grouping call that did r
GroupOp(i, name, args, r) ==
  [Op("group", i, name, args) EXCEPT !.ret = This(i), !.sink = r.sink]

\* logger.group(...args) and logger.groupStart(...args)
CallGroupStart ==
  /\ alive
  /\ \E i \in Ids, args \in GroupArgs :
       \/ /\ loggers' = [loggers EXCEPT ![i] = group(loggers[i], args).logger]
          /\ consoleGroups' = ConsoleGroups(consoleGroups, group(loggers[i], args).sink)
          /\ last' = GroupOp(i, "group", args, group(loggers[i], args))
       \/ /\ loggers' = [loggers EXCEPT ![i] = groupStart(loggers[i], args).logger]
          /\ consoleGroups' =
               ConsoleGroups(consoleGroups, groupStart(loggers[i], args).sink)
          /\ last' = GroupOp(i, "groupStart", args, groupStart(loggers[i], args))
  /\ UNCHANGED <<inst, alive, ThrottleVars>>

\* logger.groupEnd(), logger.ungroup() and logger.done()
CallGroupEnd ==
  /\ alive
  /\ \E i \in Ids :
       \/ /\ loggers' = [loggers EXCEPT ![i] = groupEnd(loggers[i]).logger]
          /\ consoleGroups' = ConsoleGroups(consoleGroups, groupEnd(loggers[i]).sink)
          /\ last' = GroupOp(i, "groupEnd", <<>>, groupEnd(loggers[i]))
       \/ /\ loggers' = [loggers EXCEPT ![i] = ungroup(loggers[i]).logger]
          /\ consoleGroups' = ConsoleGroups(consoleGroups, ungroup(loggers[i]).sink)
          /\ last' = GroupOp(i, "ungroup", <<>>, ungroup(loggers[i]))
       \/ /\ loggers' = [loggers EXCEPT ![i] = done(loggers[i]).logger]
          /\ consoleGroups' = ConsoleGroups(consoleGroups, done(loggers[i]).sink)
          /\ last' = GroupOp(i, "done", <<>>, done(loggers[i]))
  /\ UNCHANGED <<inst, alive, ThrottleVars>>

NextGroup ==
  \/ AccessLogger
  \/ CallGroupStart
  \/ CallGroupEnd
  \/ CallDoLog

\* the default instance, its groups and the messages printed in and out of them
SpecGroup == Init /\ [][NextGroup]_vars

GroupStartStep == last'.op = "group" /\ last'.name \in {"group", "groupStart"}
GroupEndStep == last'.op = "group" /\ last'.name \in {"groupEnd", "ungroup", "done"}

\* the title T as a group shows it
Shown(T) == IF Len(T) <= 25 THEN T ELSE SubSeq(T, 1, 22) \o "..."

\* the title part of a body line: the message's own title, or else the title
\* of the open group
GroupTitlePart ==
  IF TitlePart # "" THEN TitlePart
  ELSE IF Self.groupTitle # "" THEN "[" \o Self.groupTitle \o "] "
  ELSE ""

C30_AtMostOneOpenGroup ==
  /\ [](consoleGroups <= 1)
  /\ [](\A i \in Ids : ~loggers[i].isGroupped => loggers[i].groupTitle = "")
  /\ [](\A i \in Ids : loggers[i].isGroupped <=> consoleGroups = 1)
  /\ [][GroupStartStep => loggers'[last'.id].isGroupped]_vars
  /\ [][GroupEndStep => ~loggers'[last'.id].isGroupped]_vars
  /\ [][last'.op # "group" /\ Len(loggers) > 0
        => loggers'[1].isGroupped = loggers[1].isGroupped]_vars

C30_Witness ==
  /\ last.op = "group" /\ last.name = "groupStart"
  /\ last.sink = <<Call("groupEnd", ""), Call("group", "Something")>>
  /\ consoleGroups = 1 /\ Self.isGroupped /\ Self.groupTitle = "Something"

(***************************************************************************)
(* The gates at the time a throttle timer fires.                           *)
(***************************************************************************)
\* C26: the trailing emission of a throttle timer passes the gates of its
\* instance as they stand when the timer fires.  The severity method is
\* called once; it reaches the formatter exactly when the instance is not
\* silent and its level is at or above the method's rank at that time; when
\* it does not, nothing is printed, nothing is thrown, and the key's entry
\* is removed from the table all the same.
C26_TrailingEmissionGatedAtFiring ==
  [][FireStep => \E t \in timers \ timers' :
       /\ last'.id = t.self /\ last'.name = t.method
       /\ last'.doLogs = (IF PassesOn(t.self, t.method) THEN 1 ELSE 0)
       /\ ~PassesOn(t.self, t.method)
          => /\ last'.sink = <<>> /\ last'.err = ""
             /\ t.key \notin DOMAIN throttleTbl'
             /\ alive']_vars

\* a timer fired on an instance whose level had been lowered to error, and
\* printed nothing
C26_Witness ==
  /\ last.op = "fire" /\ last.name = "warn"
  /\ ~Self.silent /\ Self.level = N(0)
  /\ last.doLogs = 0 /\ last.sink = <<>>
  /\ throttleTbl = <<>> /\ timers = {}

(***************************************************************************)
(* Failed assertions and the level.                                        *)
(***************************************************************************)
\* C27: an assertion helper that fails calls warn once and returns false;
\* the warning reaches the formatter only when the logger is not silent and
\* its level is at or above the rank of warn, so at level 0 (error) or lower
\* a failing helper makes no sink call even on a logger that is not silent.
C27_FailedAssertionGatedByLevel ==
  last.op = "assert" /\ last.err = "" /\ last.ret # B(TRUE)
  => /\ last.ret = B(FALSE)
     /\ last.warns = 1
     /\ last.doLogs = (IF PassesOn(last.id, "warn") THEN 1 ELSE 0)
     /\ (last.doLogs = 1 <=> last.sink # <<>>)
     /\ ~GE(Self.level, 1) => last.sink = <<>>

C27_Witness ==
  /\ last.op = "assert" /\ last.name = "assertEqual"
  /\ last.ret = B(FALSE) /\ last.warns = 1
  /\ ~Self.silent /\ Self.level = N(0)
  /\ last.sink = <<>>

(***************************************************************************)
(* Levels outside the table.                                               *)
(***************************************************************************)
\* C28: assigning a name that is not in the level table sets the level to 0;
\* assigning a number, or a string of digits, sets it to that number with no
\* clamping to 0..6.  At a level above 6 every severity method called on a
\* logger that is not silent reaches the formatter; at a negative level none
\* does, error included.
C28_LevelNotClamped ==
  /\ [][last'.op = "setLevel"
        => /\ IsNumber(last'.args[1])
              => loggers'[last'.id].level = last'.args[1]
           /\ StrictEq(last'.args[1], S("3"))
              => loggers'[last'.id].level = N(3)
           /\ StrictEq(last'.args[1], S("bogus"))
              => loggers'[last'.id].level = N(0)]_vars
  /\ [](last.op = "severity" /\ ~Self.silent /\ IsNumber(Self.level)
        => /\ Self.level.v > 6 => last.doLogs = 1
           /\ Self.level.v < 0 => last.doLogs = 0)

\* error("a") on a talking logger at level -1 prints nothing
C28_Witness ==
  /\ last.op = "severity" /\ last.name = "error" /\ last.args = <<S("a")>>
  /\ ~Self.silent /\ Self.level = N(-1)
  /\ last.doLogs = 0 /\ last.sink = <<>>

(***************************************************************************)
(* fromExec and the default instance.                                      *)
(***************************************************************************)
\* the calls of the last operation that pass the gates of instance i
PassingOn(i) == {k \in 1..Len(last.sev) : PassesOn(i, last.sev[k].method)}

\* C29: fromExec, on whatever instance it is called, makes its calls on the
\* default instance.  They reach the formatter, and print, as the default
\* instance's silent flag and level say; the flag and level of the instance
\* it was called on play no part.  Apart from the banner of a default
\* instance constructed by the call, nothing else is printed.
C29_FromExecUsesDefaultInstance ==
  last.op = "fromExec" /\ inst # 0
  => /\ \A k \in 1..Len(last.sev) : last.sev[k].id = inst
     /\ last.doLogs = Cardinality(PassingOn(inst))
     /\ last.doLogs > 0 => Len(last.sink) > 1 \/ last.sink \notin {<<>>, Banner(loggers[inst])}
     /\ last.doLogs = 0 => last.sink \in {<<>>, Banner(loggers[inst])}

\* called on a silent instance at level warn, fromExec prints the error
\* through the talking default instance
C29_Witness ==
  /\ last.op = "fromExec" /\ inst # 0 /\ last.id # inst
  /\ last.args = <<E("e"), S("out"), S("")>>
  /\ loggers[last.id].silent /\ loggers[last.id].level = N(1)
  /\ ~loggers[inst].silent
  /\ last.doLogs = 1 /\ Len(last.sink) = 2

====
